---------------------------- MODULE Spec2Model ----------------------------
(***************************************************************************)
(* Study-room board back-end (src/server.js): the OAuth token cache, the   *)
(* time parser, the hours resolver, the slot grid builder and the          *)
(* /api/today handler.                                                     *)
(*                                                                         *)
(* Time.  The clock (Date.now()) is counted in seconds.  A dayjs instant   *)
(* is counted in minutes on the wall clock of TZ, minute 0 being 00:00 of  *)
(* calendar day 0; the UTC offset of TZ is taken to be constant over the   *)
(* days modelled (no daylight-saving change).  Comparing an instant that   *)
(* lies on a whole minute with "now" is exact on the floor of now.         *)
(*                                                                         *)
(* Text.  A time string or a status string is the sequence of its          *)
(* characters, so that parsing, trimming and lower-casing are computed.    *)
(***************************************************************************)
EXTENDS Integers, Sequences, FiniteSets, TLC

VARIABLES
    bsDate,     \* buildSlots under test: its dateISO argument (a day number)
    bsOpen,     \* its openStr argument
    bsClose,    \* its closeStr argument
    bsResult,   \* what the call produced: [ok, slots] (ok = FALSE: it threw)
    bsDone,     \* whether the call has been made
    clock,      \* Date.now(), in seconds
    tokenCache, \* the module-level cache record {token, expires}
    tpc,        \* per caller of getAccessToken: idle, fetch (awaiting a
                \* token endpoint), returned, thrown
    turl,       \* per caller: index in tokenUrls of the endpoint awaited
    tlastErr,   \* per caller: lastErr
    tret,       \* per caller: the value the call returned
    tsent,      \* per caller: the endpoints this call has sent a request to
    tseen,      \* per caller: the outcome of each request answered so far
    twrites,    \* per caller: how often this call has assigned tokenCache
    hpc,        \* the /api/today request: idle, display, token, hours,
                \* bookingsToday, bookingsTomorrow, done
    todayISO,   \* its todayISO (a day number)
    dateDisplay, \* its dateDisplay (the day it renders)
    bearer,     \* its bearer
    hoursResp,  \* the answer the hours source gave it
    hwin,       \* its { openStr, closeStr }
    spansNextDay, \* its spansNextDay
    bookings,   \* its bookings: [shape, list]
    hsent,      \* the requests it has sent to the hours and booking sources
    hticks,     \* how often the clock has moved on while it was handled
    hnow,       \* its now, to the minute
    taken,      \* its set of taken keys
    allSlots,   \* its allSlots
    res         \* its response: [status, dateDisplay, grid, error]

slotVars == <<bsDate, bsOpen, bsClose, bsResult, bsDone>>

tokenVars == <<tokenCache, tpc, turl, tlastErr, tret, tsent, tseen, twrites>>

handlerVars == <<hpc, todayISO, dateDisplay, bearer, hoursResp, hwin, spansNextDay,
                 bookings, hsent, hticks, hnow, taken, allSlots, res>>

vars == <<bsDate, bsOpen, bsClose, bsResult, bsDone, clock,
          tokenCache, tpc, turl, tlastErr, tret, tsent, tseen, twrites,
          hpc, todayISO, dateDisplay, bearer, hoursResp, hwin, spansNextDay,
          bookings, hsent, hticks, hnow, taken, allSlots, res>>

-----------------------------------------------------------------------------
(* Bounds of the model *)

\* calendar days 0..MaxDay are offered as dateISO to buildSlots
MaxDay == 1

\* callers of getAccessToken that may overlap
MaxCallers == 2

\* the clock of the token cache runs from 0 to MaxClock seconds
MaxClock == 2

\* the clock moves on at most MaxTicks times while a request is handled
MaxTicks == 1

\* the booking source returns at most MaxBookings bookings for today
MaxBookings == 2

\* ... and at most MaxTomorrow bookings for tomorrow
MaxTomorrow == 1

-----------------------------------------------------------------------------
(* Program constants *)

SLOT_MINUTES == 30

MinutesPerDay == 1440

MinutesPerHour == 60

-----------------------------------------------------------------------------
(* Characters and text *)

Digits == {"0", "1", "2", "3", "4", "5", "6", "7", "8", "9"}

DigitVal ==
    ("0" :> 0) @@ ("1" :> 1) @@ ("2" :> 2) @@ ("3" :> 3) @@ ("4" :> 4) @@
    ("5" :> 5) @@ ("6" :> 6) @@ ("7" :> 7) @@ ("8" :> 8) @@ ("9" :> 9)

\* the characters the word pattern of the parser excludes: - _ : / , ( ) and blanks
Separators == {"-", "_", ":", "/", ",", "(", ")", " "}

IsWordCh(c) == c \notin Separators /\ c \notin Digits

MinOf(S) == CHOOSE x \in S : \A y \in S : x <= y

MaxOf(S) == CHOOSE x \in S : \A y \in S : x >= y

\* String.prototype.slice(start): the text from 0-based offset start on
Slice(s, start) == SubSeq(s, start + 1, Len(s))

\* String.prototype.replace(v, ''): s without the first occurrence of v
RemoveFirst(s, v) ==
    LET at == {i \in 1..(Len(s) - Len(v) + 1) : SubSeq(s, i, i + Len(v) - 1) = v}
    IN  IF at = {} \/ v = <<>> THEN s
        ELSE LET i == MinOf(at)
             IN  SubSeq(s, 1, i - 1) \o SubSeq(s, i + Len(v), Len(s))

\* /\d\d?/.exec(part): the first one or two digits of part, <<>> if there are none
Match1to2(part) ==
    LET at == {i \in 1..Len(part) : part[i] \in Digits}
    IN  IF at = {} THEN <<>>
        ELSE LET i == MinOf(at)
             IN  IF i < Len(part) /\ part[i + 1] \in Digits
                 THEN SubSeq(part, i, i + 1)
                 ELSE SubSeq(part, i, i)

\* /\d*[^-_:/,()\s\d]+/.exec(part): the first word of part with the digits
\* that touch it on the left, <<>> if part holds no word character
MatchWord(part) ==
    LET at == {i \in 1..Len(part) : IsWordCh(part[i])}
    IN  IF at = {} THEN <<>>
        ELSE LET j == MinOf(at)
                 i == MinOf({a \in 1..j : \A b \in a..(j - 1) : part[b] \in Digits})
                 k == MaxOf({a \in j..Len(part) : \A b \in j..a : IsWordCh(part[b])})
             IN  SubSeq(part, i, k)

NumVal(v) ==
    IF Len(v) = 1 THEN DigitVal[v[1]] ELSE 10 * DigitVal[v[1]] + DigitVal[v[2]]

-----------------------------------------------------------------------------
(* dayjs with a format (customParseFormat, not strict): the format is cut   *)
(* into tokens; a separator token moves the read offset by its length, a    *)
(* field token takes the first match of its pattern at or after the offset  *)
(* and removes the matched text from the input.  A field that finds no      *)
(* match makes the result an invalid date.                                  *)

NumericTokens == {"h", "hh", "H", "HH", "mm"}

\* the time part of the seven formats parseTime tries, in its order
Patterns ==
    << <<"h", ":", "mm", "a">>,        \* YYYY-MM-DD h:mma
       <<"h", ":", "mm", " ", "a">>,   \* YYYY-MM-DD h:mm a
       <<"hh", ":", "mm", "a">>,       \* YYYY-MM-DD hh:mma
       <<"H", ":", "mm">>,             \* YYYY-MM-DD H:mm
       <<"HH", ":", "mm">>,            \* YYYY-MM-DD HH:mm
       <<"h", " ", "a">>,              \* YYYY-MM-DD h a
       <<"h", "a">> >>                 \* YYYY-MM-DD ha

ParserStart(input, start) ==
    [input |-> input, start |-> start, hours |-> 0, minutes |-> 0,
     aft |-> "unset", ok |-> TRUE]

ParseToken(st, tok) ==
    IF ~st.ok THEN st
    ELSE IF tok \in NumericTokens THEN
        LET v == Match1to2(Slice(st.input, st.start))
        IN  IF v = <<>> THEN [st EXCEPT !.ok = FALSE]
            ELSE IF tok = "mm"
                 THEN [st EXCEPT !.minutes = NumVal(v), !.input = RemoveFirst(st.input, v)]
                 ELSE [st EXCEPT !.hours = NumVal(v), !.input = RemoveFirst(st.input, v)]
    ELSE IF tok = "a" THEN
        LET v == MatchWord(Slice(st.input, st.start))
        IN  IF v = <<>> THEN [st EXCEPT !.ok = FALSE]
            ELSE [st EXCEPT !.aft = IF v = <<"p", "m">> THEN "yes" ELSE "no",
                            !.input = RemoveFirst(st.input, v)]
    ELSE [st EXCEPT !.start = st.start + Len(tok)]

RECURSIVE RunParser(_, _, _)
RunParser(fmt, st, i) ==
    IF i > Len(fmt) THEN st ELSE RunParser(fmt, ParseToken(st, fmt[i]), i + 1)

\* correctHours: 12-hour clock to 24-hour clock when a meridiem was read
CorrectHours(st) ==
    IF st.aft = "yes" THEN (IF st.hours < 12 THEN st.hours + 12 ELSE st.hours)
    ELSE IF st.aft = "no" THEN (IF st.hours = 12 THEN 0 ELSE st.hours)
    ELSE st.hours

\* the time of day (minutes after 00:00) a format reads from the text
ParseFormat(fmt, input, start) ==
    LET st == RunParser(fmt, ParserStart(input, start), 1)
    IN  IF st.ok THEN [ok |-> TRUE, t |-> CorrectHours(st) * MinutesPerHour + st.minutes]
        ELSE [ok |-> FALSE, t |-> 0]

\* what is left of `${dateISO} ${timeStr}` once YYYY-MM-DD and the blank are
\* read: the two hyphens, the blank and the time string, read offset 3
AfterDate(timeStr) == <<"-", "-", " ">> \o timeStr

RECURSIVE TryPatterns(_, _, _)
TryPatterns(dateISO, timeStr, i) ==
    IF i > Len(Patterns) THEN [ok |-> FALSE, t |-> 0]
    ELSE LET d == ParseFormat(Patterns[i], AfterDate(timeStr), 3)
         IN  IF d.ok THEN [ok |-> TRUE, t |-> dateISO * MinutesPerDay + d.t]
             ELSE TryPatterns(dateISO, timeStr, i + 1)

\* parseTime(dateISO, timeStr): the instant, or ok = FALSE for null
parseTime(dateISO, timeStr) == TryPatterns(dateISO, timeStr, 1)

-----------------------------------------------------------------------------
(* buildSlots *)

\* "if (!close.isAfter(first)) close = close.add(1, 'day')"
RolloverNoEqual(first, close) == IF close < first THEN close + MinutesPerDay ELSE close

Rollover(first, close) == IF ~(close > first) THEN close + MinutesPerDay ELSE close

\* "first.minute(startMin < 30 ? 0 : 30).second(0)"
AlignStartNone(first) == first

AlignStart(first) ==
    LET startMin == first % MinutesPerHour
    IN  first - startMin + (IF startMin < 30 THEN 0 ELSE 30)

\* the while (true) loop: slots from t on, each ending at or before close
RECURSIVE SlotLoopByStart(_, _, _)
SlotLoopByStart(t, close, slots) ==
    IF t > close THEN slots
    ELSE SlotLoopByStart(t + SLOT_MINUTES, close, Append(slots, t))

RECURSIVE SlotLoopBody(_, _, _)
SlotLoopBody(t, close, slots) ==
    LET slotEnd == t + SLOT_MINUTES
    IN  IF slotEnd > close THEN slots
        ELSE SlotLoopBody(slotEnd, close, Append(slots, t))

SlotLoop(t, close, slots) == SlotLoopBody(t, close, slots)

buildSlots(dateISO, openStr, closeStr) ==
    LET first == parseTime(dateISO, openStr)
        close == parseTime(dateISO, closeStr)
    IN  IF ~first.ok \/ ~close.ok THEN [ok |-> FALSE, slots |-> <<>>]
        ELSE [ok |-> TRUE,
              slots |-> SlotLoop(AlignStart(first.t), Rollover(first.t, close.t), <<>>)]


-----------------------------------------------------------------------------
(* isActiveStatus *)

UpperCase == <<"A", "B", "C", "D", "E", "F", "G", "H", "I", "J", "K", "L", "M",
               "N", "O", "P", "Q", "R", "S", "T", "U", "V", "W", "X", "Y", "Z">>

LowerCase == <<"a", "b", "c", "d", "e", "f", "g", "h", "i", "j", "k", "l", "m",
               "n", "o", "p", "q", "r", "s", "t", "u", "v", "w", "x", "y", "z">>

LowerCh(c) ==
    IF \E i \in 1..Len(UpperCase) : UpperCase[i] = c
    THEN LowerCase[CHOOSE i \in 1..Len(UpperCase) : UpperCase[i] = c]
    ELSE c

\* String.prototype.toLowerCase
ToLowerCase(s) == [i \in 1..Len(s) |-> LowerCh(s[i])]

\* String.prototype.trim
Trim(s) ==
    LET at == {i \in 1..Len(s) : s[i] # " "}
    IN  IF at = {} THEN <<>> ELSE SubSeq(s, MinOf(at), MaxOf(at))

\* the statuses that count as occupying the room
ActiveStatuses ==
    { <<"c", "o", "n", "f", "i", "r", "m", "e", "d">>,
      <<"c", "h", "e", "c", "k", "e", "d", " ", "i", "n">>,
      <<"c", "h", "e", "c", "k", "e", "d", "-", "i", "n">>,
      <<"a", "c", "t", "i", "v", "e">> }

\* a status that is missing (undefined, null, '') is the empty text:
\* String(status || '')
isActiveStatusAny(status) == TRUE

isActiveStatusNoTrim(status) == ToLowerCase(status) \in ActiveStatuses

isActiveStatus(status) == ToLowerCase(Trim(status)) \in ActiveStatuses

-----------------------------------------------------------------------------
(* getTodayHours *)

FALLBACK_OPEN == 8

FALLBACK_CLOSE == 23

DigitCh == <<"0", "1", "2", "3", "4", "5", "6", "7", "8", "9">>

\* `${String(n).padStart(2, '0')}:00`
FallbackStr(n) ==
    (IF n < 10 THEN <<"0", DigitCh[n + 1]>>
     ELSE <<DigitCh[(n \div 10) + 1], DigitCh[(n % 10) + 1]>>)
    \o <<":", "0", "0">>

FallbackWindow ==
    [openStr |-> FallbackStr(FALLBACK_OPEN), closeStr |-> FallbackStr(FALLBACK_CLOSE)]

\* "return { openStr: '12:00am', closeStr: '12:00am' }"
FullDayWindow ==
    [openStr |-> <<"1", "2", ":", "0", "0", "a", "m">>,
     closeStr |-> <<"1", "2", ":", "0", "0", "a", "m">>]

\* /open/i.test(status)
IndicatesOpen(status) ==
    \E i \in 1..(Len(status) - 3) :
        ToLowerCase(SubSeq(status, i, i + 3)) = <<"o", "p", "e", "n">>

\* dayjs(str, 'h:mma'): a time of day, or an invalid date
ParseHMMA(str) == ParseFormat(<<"h", ":", "mm", "a">>, str, 0)

\* a.isBefore(b), a.isAfter(b): false when either date is invalid
IsBefore(a, b) == a.ok /\ b.ok /\ a.t < b.t

IsAfter(a, b) == a.ok /\ b.ok /\ a.t > b.t

\* hours.reduce(..., hours[0].from): the earliest from
RECURSIVE EarliestFrom(_, _, _)
EarliestFrom(hours, i, earliest) ==
    IF i > Len(hours) THEN earliest
    ELSE EarliestFrom(hours, i + 1,
            IF IsBefore(ParseHMMA(hours[i].from), ParseHMMA(earliest))
            THEN hours[i].from ELSE earliest)

\* hours.reduce(..., hours[0].to): the latest to
RECURSIVE LatestTo(_, _, _)
LatestTo(hours, i, latest) ==
    IF i > Len(hours) THEN latest
    ELSE LatestTo(hours, i + 1,
            IF IsAfter(ParseHMMA(hours[i].to), ParseHMMA(latest))
            THEN hours[i].to ELSE latest)

\* whether "hours" of the day's entry is an array (Array.isArray)
IsList(dayHours) == dayHours.shape = "list"

\* the test that makes an open day without ranges a full day
NoRangesListOnly(dayHours) == IsList(dayHours) /\ Len(dayHours.list) = 0

NoRanges(dayHours) == ~IsList(dayHours) \/ Len(dayHours.list) = 0

\* the body of the try block on the answer of the hours source; threw = TRUE
\* stands for an exception raised inside it
HoursTry(r) ==
    IF r.kind # "json" THEN [threw |-> TRUE, win |-> FallbackWindow]
    ELSE IF r.day = "missing" THEN [threw |-> TRUE, win |-> FallbackWindow]
    ELSE IF IndicatesOpen(r.status) /\ NoRanges(r.hours)
         THEN [threw |-> FALSE, win |-> FullDayWindow]
    ELSE IF ~IndicatesOpen(r.status) \/ ~IsList(r.hours)
         THEN [threw |-> TRUE, win |-> FallbackWindow]
    ELSE [threw |-> FALSE,
          win |-> [openStr |-> EarliestFrom(r.hours.list, 1, r.hours.list[1].from),
                   closeStr |-> LatestTo(r.hours.list, 1, r.hours.list[1].to)]]

\* the catch block: the fallback window for whatever the try block threw
HoursCatchRethrow(t) == [threw |-> t.threw, win |-> t.win]

HoursCatch(t) == [threw |-> FALSE, win |-> IF t.threw THEN FallbackWindow ELSE t.win]

\* getTodayHours(bearer, isoDate) on the answer r of the hours source
getTodayHours(r) == HoursCatch(HoursTry(r))

-----------------------------------------------------------------------------
(* The occupancy set and the grid of /api/today *)

\* dayjs().tz(TZ) at clock c, to the minute
NowMinute(c) == c \div 60

\* format('YYYY-MM-DD') of the clock: the number of the calendar day
DayOfClock(c) == NowMinute(c) \div MinutesPerDay

\* format('YYYY-MM-DD HH:mm'): the calendar day and the time of day
FormatKeyTimeOnly(t) == <<0, t % MinutesPerDay>>

FormatKey(t) == <<t \div MinutesPerDay, t % MinutesPerDay>>

\* format('h:mm A')
FormatLabel(t) ==
    LET hh == (t % MinutesPerDay) \div MinutesPerHour
    IN  <<IF hh % 12 = 0 THEN 12 ELSE hh % 12, t % MinutesPerHour,
          IF hh < 12 THEN "AM" ELSE "PM">>

\* dayjs(b.fromDate || b.from).tz(TZ): a date-time of the payload, an invalid
\* date for a text that is no date, the current time for a missing one
BookingInstant(x, now) ==
    IF x.kind = "at" THEN [ok |-> TRUE, t |-> x.t]
    ELSE IF x.kind = "missing" THEN [ok |-> TRUE, t |-> now]
    ELSE [ok |-> FALSE, t |-> 0]

\* the keys one booking adds in the for loop: start, start + 30 min, ...
\* while before end
KeysOfRange(start, end) ==
    IF ~(start < end) THEN {}
    ELSE { FormatKey(start + SLOT_MINUTES * n) :
             n \in {m \in 0..((end - start) \div SLOT_MINUTES) :
                       start + SLOT_MINUTES * m < end} }

\* the forEach body: nothing for a booking whose start or end is invalid
KeysOfBooking(b, now) ==
    LET start == BookingInstant(b.from, now)
        end == BookingInstant(b.to, now)
    IN  IF ~start.ok \/ ~end.ok THEN {} ELSE KeysOfRange(start.t, end.t)

\* "taken": the keys of the bookings that pass the status filter
TakenOf(bks, now) ==
    UNION { KeysOfBooking(bks[i], now) :
              i \in {j \in 1..Len(bks) : isActiveStatus(bks[j].status)} }

\* "allSlots.filter(t => t.clone().add(SLOT_MINUTES,'minute').isAfter(now))"
RemainingByStart(all, now) == SelectSeq(all, LAMBDA t : t > now)

Remaining(all, now) == SelectSeq(all, LAMBDA t : t + SLOT_MINUTES > now)

\* "if (slots.length === 0) slots = allSlots"
ShownSlotsNoFallback(all, now) == Remaining(all, now)

ShownSlots(all, now) ==
    LET slots == Remaining(all, now)
    IN  IF Len(slots) = 0 THEN all ELSE slots

\* slots.map(...): start is the slot's instant, which the response does not
\* carry; label and booked are the fields of the response
GridOf(slots, tk) ==
    [i \in 1..Len(slots) |->
        [start |-> slots[i], label |-> FormatLabel(slots[i]),
         booked |-> FormatKey(slots[i]) \in tk]]

\* no call of buildSlots on its own is under way
SlotsIdle ==
    /\ bsDate = 0
    /\ bsOpen = <<>>
    /\ bsClose = <<>>
    /\ bsResult = [ok |-> FALSE, slots |-> <<>>]
    /\ bsDone = FALSE

-----------------------------------------------------------------------------
(* getAccessToken and the token cache *)

SafetyMargin == 60

DefaultLifetime == 3540

Callers == 1..MaxCallers

\* `${LIBCAL_HOST}/1.1/oauth/token`, `${LIBCAL_HOST}/api/1.1/oauth/token`
tokenUrlsOne == <<"/1.1/oauth/token">>

tokenUrls == <<"/1.1/oauth/token", "/api/1.1/oauth/token">>

\* values of a token that "tokenCache.token &&" takes for false
Falsy == {"null", "undefined", ""}

Truthy(v) == v \notin Falsy

\* the access_token of a provider body; "undefined": the body has none
AccessTokens == {"tokA", "tokB", "undefined"}

\* the expires_in of a provider body, in seconds; 0: the body has none
ExpiresIn == {0, 30, 61}

\* what a request to a token endpoint can come to: fetch rejects, a status
\* that is not ok, a text that is not JSON, or a JSON body
TokenResponses ==
    { [kind |-> k, access_token |-> "undefined", expires_in |-> 0] :
          k \in {"network", "http", "badjson"} }
    \cup
    { [kind |-> "json", access_token |-> a, expires_in |-> e] :
          a \in AccessTokens, e \in ExpiresIn }

\* "json.expires_in ? (json.expires_in - 60) * 1000 : 59 * 60 * 1000"
Lifetime(expires_in) ==
    IF expires_in # 0 THEN expires_in - SafetyMargin ELSE DefaultLifetime

\* "tokenCache.token && Date.now() < tokenCache.expires"
CacheHitIgnoringExpiry(cache, now) == Truthy(cache.token)

CacheHitAtExpiry(cache, now) == Truthy(cache.token) /\ now <= cache.expires

CacheHit(cache, now) == Truthy(cache.token) /\ now < cache.expires

TokenIdle ==
    /\ tokenCache = [token |-> "null", expires |-> 0]
    /\ tpc = [p \in Callers |-> "idle"]
    /\ turl = [p \in Callers |-> 0]
    /\ tlastErr = [p \in Callers |-> "none"]
    /\ tret = [p \in Callers |-> "none"]
    /\ tsent = [p \in Callers |-> <<>>]
    /\ tseen = [p \in Callers |-> <<>>]
    /\ twrites = [p \in Callers |-> 0]

TokenInit == clock = 0 /\ TokenIdle

\* getAccessToken up to its first await: the cache test, and on a miss the
\* request to the first endpoint
TokenCall(p) ==
    /\ tpc[p] = "idle"
    /\ tseen' = [tseen EXCEPT ![p] = <<>>]
    /\ twrites' = [twrites EXCEPT ![p] = 0]
    /\ tlastErr' = [tlastErr EXCEPT ![p] = "none"]
    /\ IF CacheHit(tokenCache, clock)
       THEN /\ tpc' = [tpc EXCEPT ![p] = "returned"]
            /\ tret' = [tret EXCEPT ![p] = tokenCache.token]
            /\ tsent' = [tsent EXCEPT ![p] = <<>>]
            /\ turl' = [turl EXCEPT ![p] = 0]
       ELSE /\ tpc' = [tpc EXCEPT ![p] = "fetch"]
            /\ tret' = [tret EXCEPT ![p] = "none"]
            /\ tsent' = [tsent EXCEPT ![p] = <<1>>]
            /\ turl' = [turl EXCEPT ![p] = 1]
    /\ UNCHANGED <<tokenCache, clock>>

\* the error an answer that is no token leaves in lastErr
ErrorOf(r) ==
    IF r.kind = "http" THEN "OAuth failed (status)"
    ELSE IF r.kind = "network" THEN "fetch failed"
    ELSE "JSON parse error"

\* a round of the loop in which the last failure also empties the cache
TokenAnswerClearsOnFailure(p, r) ==
    /\ tpc[p] = "fetch"
    /\ tseen' = [tseen EXCEPT ![p] = Append(@, r.kind)]
    /\ IF r.kind = "json"
       THEN /\ tokenCache' = [token |-> r.access_token,
                              expires |-> clock + Lifetime(r.expires_in)]
            /\ twrites' = [twrites EXCEPT ![p] = @ + 1]
            /\ tret' = [tret EXCEPT ![p] = r.access_token]
            /\ tpc' = [tpc EXCEPT ![p] = "returned"]
            /\ UNCHANGED <<turl, tlastErr, tsent>>
       ELSE /\ tlastErr' = [tlastErr EXCEPT ![p] = ErrorOf(r)]
            /\ IF turl[p] < Len(tokenUrls)
               THEN /\ turl' = [turl EXCEPT ![p] = @ + 1]
                    /\ tsent' = [tsent EXCEPT ![p] = Append(@, turl[p] + 1)]
                    /\ UNCHANGED <<tpc, tokenCache>>
               ELSE /\ tpc' = [tpc EXCEPT ![p] = "thrown"]
                    /\ tokenCache' = [token |-> "null", expires |-> 0]
                    /\ UNCHANGED <<turl, tsent>>
            /\ UNCHANGED <<twrites, tret>>
    /\ UNCHANGED clock

\* the rest of one round of the for loop, from the answer of the endpoint
\* awaited: store and return the token, or note the error and go on to the
\* next endpoint, or throw after the last one
TokenAnswer(p, r) ==
    /\ tpc[p] = "fetch"
    /\ tseen' = [tseen EXCEPT ![p] = Append(@, r.kind)]
    /\ IF r.kind = "json"
       THEN /\ tokenCache' = [token |-> r.access_token,
                              expires |-> clock + Lifetime(r.expires_in)]
            /\ twrites' = [twrites EXCEPT ![p] = @ + 1]
            /\ tret' = [tret EXCEPT ![p] = r.access_token]
            /\ tpc' = [tpc EXCEPT ![p] = "returned"]
            /\ UNCHANGED <<turl, tlastErr, tsent>>
       ELSE /\ tlastErr' = [tlastErr EXCEPT ![p] = ErrorOf(r)]
            /\ IF turl[p] < Len(tokenUrls)
               THEN /\ turl' = [turl EXCEPT ![p] = @ + 1]
                    /\ tsent' = [tsent EXCEPT ![p] = Append(@, turl[p] + 1)]
                    /\ UNCHANGED tpc
               ELSE /\ tpc' = [tpc EXCEPT ![p] = "thrown"]
                    /\ UNCHANGED <<turl, tsent>>
            /\ UNCHANGED <<tokenCache, twrites, tret>>
    /\ UNCHANGED clock

\* the caller has its token or its error and drops the call's locals; it may
\* call again
TokenDone(p) ==
    /\ tpc[p] \in {"returned", "thrown"}
    /\ tpc' = [tpc EXCEPT ![p] = "idle"]
    /\ turl' = [turl EXCEPT ![p] = 0]
    /\ tlastErr' = [tlastErr EXCEPT ![p] = "none"]
    /\ tret' = [tret EXCEPT ![p] = "none"]
    /\ tsent' = [tsent EXCEPT ![p] = <<>>]
    /\ tseen' = [tseen EXCEPT ![p] = <<>>]
    /\ twrites' = [twrites EXCEPT ![p] = 0]
    /\ UNCHANGED <<clock, tokenCache>>

\* a second passes
TickSecond ==
    /\ clock < MaxClock
    /\ clock' = clock + 1
    /\ UNCHANGED tokenVars

-----------------------------------------------------------------------------
(* app.get('/api/today') *)

\* the caller of getAccessToken that is the request
HandlerCaller == 1

\* the clock at hh:mm of day d
ClockAt(d, hh, mm) == ((d * 24 + hh) * 60 + mm) * 60

\* the instant hh:mm of day d
At(d, hh, mm) == d * MinutesPerDay + hh * MinutesPerHour + mm

\* when the request arrives
ClockStarts ==
    { ClockAt(0, 7, 0), ClockAt(0, 8, 40), ClockAt(0, 23, 20), ClockAt(0, 23, 50),
      ClockAt(1, 0, 40) }

\* the clock moves on by a quarter of an hour
TickStep == 15 * 60

NoResponse == [status |-> "none", dateDisplay |-> 0, grid |-> <<>>, error |-> "none"]

NoHours ==
    [kind |-> "none", day |-> "missing", status |-> <<>>,
     hours |-> [shape |-> "absent", list |-> <<>>]]

HandlerIdle ==
    /\ hpc = "idle"
    /\ todayISO = 0
    /\ dateDisplay = 0
    /\ bearer = "none"
    /\ hoursResp = NoHours
    /\ hwin = [openStr |-> <<>>, closeStr |-> <<>>]
    /\ spansNextDay = FALSE
    /\ bookings = [shape |-> "list", list |-> <<>>]
    /\ hsent = <<>>
    /\ hticks = 0
    /\ hnow = 0
    /\ taken = {}
    /\ allSlots = <<>>
    /\ res = NoResponse

HandlerInit == clock \in ClockStarts /\ HandlerIdle

\* the answers of the token endpoints offered to a request
HandlerTokenResponses ==
    { r \in TokenResponses :
        r.kind # "json" \/ (r.expires_in = 0 /\ r.access_token = "tokA") }

\* texts of the hours payload
HourOpen == <<"o", "p", "e", "n">>

HourOpenCap == <<"O", "p", "e", "n">>

HourClosed == <<"c", "l", "o", "s", "e", "d">>

Interval(from, to) == [from |-> from, to |-> to]

\* the sub-intervals an open day is offered with
IntervalLists ==
    { <<>>,
      \* 8:00am - 11:00pm
      << Interval(<<"8", ":", "0", "0", "a", "m">>, <<"1", "1", ":", "0", "0", "p", "m">>) >>,
      \* 8:00am - 1:00am
      << Interval(<<"8", ":", "0", "0", "a", "m">>, <<"1", ":", "0", "0", "a", "m">>) >>,
      \* 8:15am - 10:15pm
      << Interval(<<"8", ":", "1", "5", "a", "m">>, <<"1", "0", ":", "1", "5", "p", "m">>) >>,
      \* 1:00pm - 5:00pm, 9:00am - 12:00pm
      << Interval(<<"1", ":", "0", "0", "p", "m">>, <<"5", ":", "0", "0", "p", "m">>),
         Interval(<<"9", ":", "0", "0", "a", "m">>, <<"1", "2", ":", "0", "0", "p", "m">>) >> }

\* the text `${...}` and dayjs(...) see for a from or to the entry lacks: it
\* has no digit, so it is an invalid date wherever it is parsed
Undefined == <<"u", "n", "d", "e", "f", "i", "n", "e", "d">>

\* sub-intervals with a from or to that is no time or that is missing
MalformedLists ==
    { \* soon - 5:00pm
      << Interval(<<"s", "o", "o", "n">>, <<"5", ":", "0", "0", "p", "m">>) >>,
      \* 9:00am - 5:00pm, and an entry without from and to
      << Interval(<<"9", ":", "0", "0", "a", "m">>, <<"5", ":", "0", "0", "p", "m">>),
         Interval(Undefined, Undefined) >> }

\* sub-intervals written on the 24-hour clock: 13:00 - 15:00, 09:00 - 17:00
Lists24 ==
    { << Interval(<<"1", "3", ":", "0", "0">>, <<"1", "5", ":", "0", "0">>),
         Interval(<<"0", "9", ":", "0", "0">>, <<"1", "7", ":", "0", "0">>) >> }

\* what the request to the hours source can come to
HoursResponses ==
    { [kind |-> k, day |-> "missing", status |-> <<>>,
       hours |-> [shape |-> "absent", list |-> <<>>]] :
          k \in {"network", "http", "badjson", "json"} }
    \cup
    { [kind |-> "json", day |-> "present", status |-> st,
       hours |-> [shape |-> sh, list |-> <<>>]] :
          st \in {HourOpen, HourOpenCap, HourClosed}, sh \in {"absent", "notalist"} }
    \cup
    { [kind |-> "json", day |-> "present", status |-> st,
       hours |-> [shape |-> "list", list |-> l]] :
          st \in {HourOpen, HourClosed}, l \in IntervalLists }
    \cup
    { [kind |-> "json", day |-> "present", status |-> HourOpen,
       hours |-> [shape |-> "list", list |-> l]] : l \in MalformedLists \cup Lists24 }

AtTime(t) == [kind |-> "at", t |-> t]

NoTime == [kind |-> "missing", t |-> 0]

BadTime == [kind |-> "invalid", t |-> 0]

Booking(status, from, to) == [status |-> status, from |-> from, to |-> to]

StConfirmed == <<"c", "o", "n", "f", "i", "r", "m", "e", "d">>

StCheckedIn == <<" ", "C", "h", "e", "c", "k", "e", "d", "-", "I", "n", " ">>

StActive == <<"A", "c", "t", "i", "v", "e">>

StCanceled == <<"C", "a", "n", "c", "e", "l", "e", "d">>

\* the bookings the booking source is offered with for day d, in the order
\* in which it lists them
BookingPool(d) ==
    << Booking(StCanceled, AtTime(At(d, 8, 0)), AtTime(At(d, 9, 0))),
       Booking(StConfirmed, AtTime(At(d, 9, 0)), AtTime(At(d, 10, 0))),
       Booking(StActive, AtTime(At(d, 9, 15)), AtTime(At(d, 10, 15))),
       Booking(<<>>, AtTime(At(d, 10, 0)), AtTime(At(d, 11, 0))),
       Booking(StConfirmed, BadTime, AtTime(At(d, 12, 0))),
       Booking(StConfirmed, NoTime, AtTime(At(d + 1, 0, 0))),
       Booking(StCheckedIn, AtTime(At(d, 23, 30)), AtTime(At(d + 1, 0, 30))) >>

\* ... and for the day after day d
TomorrowPool(d) ==
    << Booking(StCheckedIn, AtTime(At(d, 23, 30)), AtTime(At(d + 1, 0, 30))),
       Booking(StConfirmed, AtTime(At(d + 1, 8, 0)), AtTime(At(d + 1, 9, 0))) >>

\* the elements of pool at the positions in S, in the order of pool
RECURSIVE Pick(_, _, _)
Pick(pool, S, i) ==
    IF i > Len(pool) THEN <<>>
    ELSE (IF i \in S THEN <<pool[i]>> ELSE <<>>) \o Pick(pool, S, i + 1)

\* what a request to the booking source can come to: a failure, a JSON value
\* that is no array, or an array of at most n bookings of the pool
BookingsResponses(pool, n) ==
    { [kind |-> k, shape |-> "none", list |-> <<>>] : k \in {"network", "http", "badjson"} }
    \cup
    { [kind |-> "json", shape |-> "object", list |-> <<>>] }
    \cup
    { [kind |-> "json", shape |-> "list", list |-> Pick(pool, S, 1)] :
          S \in {T \in SUBSET (1..Len(pool)) : Cardinality(T) <= n} }

\* line 195: todayISO
HReadToday ==
    /\ hpc = "idle"
    /\ todayISO' = DayOfClock(clock)
    /\ hpc' = "display"
    /\ UNCHANGED <<dateDisplay, bearer, hoursResp, hwin, spansNextDay, bookings,
                   hsent, hticks, hnow, taken, allSlots, res>>
    /\ UNCHANGED <<clock, slotVars, tokenVars>>

\* lines 196-198: dateDisplay, and getAccessToken up to its first await
HReadDisplay ==
    /\ hpc = "display"
    /\ dateDisplay' = DayOfClock(clock)
    /\ TokenCall(HandlerCaller)
    /\ hpc' = "token"
    /\ UNCHANGED <<todayISO, bearer, hoursResp, hwin, spansNextDay, bookings,
                   hsent, hticks, hnow, taken, allSlots, res>>
    /\ UNCHANGED slotVars

\* a token endpoint answers the request's getAccessToken
HTokenAnswer(r) ==
    /\ hpc = "token"
    /\ TokenAnswer(HandlerCaller, r)
    /\ UNCHANGED handlerVars
    /\ UNCHANGED slotVars

\* the response of the catch block of the handler
ErrorResponse(msg) ==
    [status |-> "500", dateDisplay |-> 0, grid |-> <<>>, error |-> msg]

\* line 198 returns: the bearer; line 201: getTodayHours sends its request
HBearer ==
    /\ hpc = "token"
    /\ tpc[HandlerCaller] = "returned"
    /\ bearer' = tret[HandlerCaller]
    /\ TokenDone(HandlerCaller)
    /\ hsent' = Append(hsent, "hours")
    /\ hpc' = "hours"
    /\ UNCHANGED <<todayISO, dateDisplay, hoursResp, hwin, spansNextDay, bookings,
                   hticks, hnow, taken, allSlots, res>>
    /\ UNCHANGED slotVars

\* line 198 throws: the catch block answers 500
HTokenFailedDefaultToken ==
    /\ hpc = "token"
    /\ tpc[HandlerCaller] = "thrown"
    /\ bearer' = "default"
    /\ TokenDone(HandlerCaller)
    /\ hsent' = Append(hsent, "hours")
    /\ hpc' = "hours"
    /\ UNCHANGED <<todayISO, dateDisplay, hoursResp, hwin, spansNextDay, bookings,
                   hticks, hnow, taken, allSlots, res>>
    /\ UNCHANGED slotVars

HTokenFailed ==
    /\ hpc = "token"
    /\ tpc[HandlerCaller] = "thrown"
    /\ res' = ErrorResponse(tlastErr[HandlerCaller])
    /\ TokenDone(HandlerCaller)
    /\ hpc' = "done"
    /\ UNCHANGED <<todayISO, dateDisplay, bearer, hoursResp, hwin, spansNextDay,
                   bookings, hsent, hticks, hnow, taken, allSlots>>
    /\ UNCHANGED slotVars

\* lines 204-206: spansNextDay
SpansNextDayStrict(day, win) ==
    LET openDT == parseTime(day, win.openStr)
        closeDT == parseTime(day, win.closeStr)
    IN  IF closeDT.ok /\ openDT.ok THEN closeDT.t < openDT.t ELSE FALSE

SpansNextDay(day, win) ==
    LET openDT == parseTime(day, win.openStr)
        closeDT == parseTime(day, win.closeStr)
    IN  IF closeDT.ok /\ openDT.ok THEN ~(closeDT.t > openDT.t) ELSE FALSE

\* line 201 returns (or throws); lines 204-214: the rollover flag and the
\* request for the bookings of today
HHours(r) ==
    /\ hpc = "hours"
    /\ hoursResp' = r
    /\ LET h == getTodayHours(r)
       IN  IF h.threw
           THEN /\ res' = ErrorResponse("hours")
                /\ hpc' = "done"
                /\ UNCHANGED <<hwin, spansNextDay, hsent>>
           ELSE /\ hwin' = h.win
                /\ spansNextDay' = SpansNextDay(todayISO, h.win)
                /\ hsent' = Append(hsent, "bookingsToday")
                /\ hpc' = "bookingsToday"
                /\ UNCHANGED res
    /\ UNCHANGED <<todayISO, dateDisplay, bearer, bookings, hticks, hnow, taken, allSlots>>
    /\ UNCHANGED <<clock, slotVars, tokenVars>>

\* lines 237-263 on the bookings bk = [shape, list]: the taken set, now, the
\* grid and the response; an exception (bookings.filter is no function,
\* buildSlots throws) goes to the catch block
Finish(bk) ==
    LET now == NowMinute(clock)
        built == buildSlots(todayISO, hwin.openStr, hwin.closeStr)
    IN  /\ hpc' = "done"
        /\ bookings' = bk
        /\ IF bk.shape # "list"
           THEN /\ res' = ErrorResponse("bookings.filter is not a function")
                /\ UNCHANGED <<hnow, taken, allSlots>>
           ELSE /\ taken' = TakenOf(bk.list, now)
                /\ hnow' = now
                /\ IF ~built.ok
                   THEN /\ res' = ErrorResponse("Could not parse opening hours")
                        /\ UNCHANGED allSlots
                   ELSE /\ allSlots' = built.slots
                        /\ res' = [status |-> "200", dateDisplay |-> dateDisplay,
                                   grid |-> GridOf(ShownSlots(allSlots', now), taken'),
                                   error |-> "none"]

\* lines 215-223: the answer for today; on a rollover day the request for
\* tomorrow is sent, otherwise the handler runs to its response
HBookingsToday(r) ==
    /\ hpc = "bookingsToday"
    /\ IF r.kind # "json"
       THEN /\ res' = ErrorResponse("Bookings HTTP")
            /\ hpc' = "done"
            /\ UNCHANGED <<bookings, hsent, hnow, taken, allSlots>>
       ELSE IF spansNextDay
       THEN /\ bookings' = [shape |-> r.shape, list |-> r.list]
            /\ hsent' = Append(hsent, "bookingsTomorrow")
            /\ hpc' = "bookingsTomorrow"
            /\ UNCHANGED <<hnow, taken, allSlots, res>>
       ELSE /\ Finish([shape |-> r.shape, list |-> r.list])
            /\ UNCHANGED hsent
    /\ UNCHANGED <<todayISO, dateDisplay, bearer, hoursResp, hwin, spansNextDay, hticks>>
    /\ UNCHANGED <<clock, slotVars, tokenVars>>

\* an element of the concatenation that is no booking: it has no status and
\* no dates
NoBooking == Booking(<<>>, NoTime, NoTime)

\* bookings.concat(bookingsTomorrow): an array is appended element by
\* element, any other value as one element
Concat(list, r) ==
    IF r.shape = "list" THEN list \o r.list ELSE Append(list, NoBooking)

\* lines 228-235: the answer for tomorrow, and on to the response
HBookingsTomorrow(r) ==
    /\ hpc = "bookingsTomorrow"
    /\ IF r.kind # "json"
       THEN /\ res' = ErrorResponse("Bookings HTTP")
            /\ hpc' = "done"
            /\ UNCHANGED <<bookings, hnow, taken, allSlots>>
       ELSE IF bookings.shape # "list"
       THEN /\ res' = ErrorResponse("bookings.concat is not a function")
            /\ hpc' = "done"
            /\ UNCHANGED <<bookings, hnow, taken, allSlots>>
       ELSE Finish([shape |-> "list", list |-> Concat(bookings.list, r)])
    /\ UNCHANGED <<todayISO, dateDisplay, bearer, hoursResp, hwin, spansNextDay,
                   hsent, hticks>>
    /\ UNCHANGED <<clock, slotVars, tokenVars>>

\* time passes while the request is handled
HTick ==
    /\ hpc \notin {"idle", "done"}
    /\ hticks < MaxTicks
    /\ hticks' = hticks + 1
    /\ clock' = clock + TickStep
    /\ UNCHANGED <<hpc, todayISO, dateDisplay, bearer, hoursResp, hwin, spansNextDay,
                   bookings, hsent, hnow, taken, allSlots, res>>
    /\ UNCHANGED <<slotVars, tokenVars>>

-----------------------------------------------------------------------------
(* buildSlots on its own: every date and every pair of time strings *)

TimeStrings ==
    { <<"0", "8", ":", "0", "0">>,            \* 08:00
      <<"0", "8", ":", "1", "5">>,            \* 08:15
      <<"0", "8", ":", "2", "0">>,            \* 08:20
      <<"8", ":", "4", "5", "a", "m">>,       \* 8:45am
      <<"0", "1", ":", "0", "0">>,            \* 01:00
      <<"1", "2", ":", "0", "0", "a", "m">>,  \* 12:00am
      <<"0", "0", ":", "1", "0">>,            \* 00:10
      <<"2", "2", ":", "1", "5">>,            \* 22:15
      <<"2", "3", ":", "0", "0">>,            \* 23:00
      <<"1", "0", ":", "3", "0", " ", "p", "m">>,  \* 10:30 pm
      <<"9", " ", "a", "m">>,                 \* 9 am
      <<"s", "o", "o", "n">> }                \* not a time

SlotsInit ==
    /\ TokenInit
    /\ HandlerIdle
    /\ bsDate \in 0..MaxDay
    /\ bsOpen \in TimeStrings
    /\ bsClose \in TimeStrings
    /\ bsResult = [ok |-> FALSE, slots |-> <<>>]
    /\ bsDone = FALSE

BuildSlotsCall ==
    /\ ~bsDone
    /\ bsResult' = buildSlots(bsDate, bsOpen, bsClose)
    /\ bsDone' = TRUE
    /\ UNCHANGED <<bsDate, bsOpen, bsClose, clock>>
    /\ UNCHANGED tokenVars
    /\ UNCHANGED handlerVars

NextSlots == BuildSlotsCall

SpecSlots == SlotsInit /\ [][NextSlots]_vars

-----------------------------------------------------------------------------
(* getAccessToken on its own: overlapping callers, the clock in seconds *)

NextToken ==
    \/ \E p \in Callers : TokenCall(p) /\ UNCHANGED slotVars /\ UNCHANGED handlerVars
    \/ \E p \in Callers : \E r \in TokenResponses :
          TokenAnswer(p, r) /\ UNCHANGED slotVars /\ UNCHANGED handlerVars
    \/ \E p \in Callers : TokenDone(p) /\ UNCHANGED slotVars /\ UNCHANGED handlerVars
    \/ TickSecond /\ UNCHANGED slotVars /\ UNCHANGED handlerVars

InitToken == TokenInit /\ SlotsIdle /\ HandlerIdle

SpecToken == InitToken /\ [][NextToken]_vars

-----------------------------------------------------------------------------
(* One request to /api/today *)

Next ==
    \/ HReadToday
    \/ HReadDisplay
    \/ hpc = "token" /\ \E r \in HandlerTokenResponses : HTokenAnswer(r)
    \/ HBearer
    \/ HTokenFailed
    \/ hpc = "hours" /\ \E r \in HoursResponses : HHours(r)
    \/ /\ hpc = "bookingsToday"
       /\ \E r \in BookingsResponses(BookingPool(todayISO), MaxBookings) : HBookingsToday(r)
    \/ /\ hpc = "bookingsTomorrow"
       /\ \E r \in BookingsResponses(TomorrowPool(todayISO), MaxTomorrow) : HBookingsTomorrow(r)
    \/ HTick

Init == HandlerInit /\ TokenIdle /\ SlotsIdle

Spec == Init /\ [][Next]_vars

-----------------------------------------------------------------------------
(* Claims about buildSlots, under SpecSlots *)

bsOpenInst == parseTime(bsDate, bsOpen).t

bsCloseInst == parseTime(bsDate, bsClose).t

\* the close instant after the rollover adjustment
bsCloseAdj ==
    IF bsCloseInst > bsOpenInst THEN bsCloseInst ELSE bsCloseInst + MinutesPerDay

\* the open instant rounded down to :00 or :30
bsOpenDown == bsOpenInst - (bsOpenInst % 30)

bsSlots == bsResult.slots

bsLastEnd == bsSlots[Len(bsSlots)] + 30

bsBuilt == bsDone /\ bsResult.ok

T0800 == <<"0", "8", ":", "0", "0">>

T0815 == <<"0", "8", ":", "1", "5">>

T0100 == <<"0", "1", ":", "0", "0">>

T2215 == <<"2", "2", ":", "1", "5">>

T2300 == <<"2", "3", ":", "0", "0">>

T1200am == <<"1", "2", ":", "0", "0", "a", "m">>

\* C1: for every date and every parseable open/close pair with close strictly
\* after open, the slot starts returned by buildSlots are strictly ascending,
\* each start is the previous start plus exactly 30 minutes, and no slot's
\* end (start + 30 min) is later than the close instant.
C1_SlotsAscendingContiguousBounded ==
    (bsBuilt /\ bsCloseInst > bsOpenInst) =>
        /\ \A i \in 1..(Len(bsSlots) - 1) :
              /\ bsSlots[i] < bsSlots[i + 1]
              /\ bsSlots[i + 1] = bsSlots[i] + 30
        /\ \A i \in 1..Len(bsSlots) : bsSlots[i] + 30 <= bsCloseInst

\* C1 witness: a grid of several slots was built for 08:00-22:15, a window
\* whose close is after its open and is not a slot boundary.
C1_Witness ==
    /\ bsBuilt /\ bsOpen = T0800 /\ bsClose = T2215
    /\ Len(bsSlots) > 2

\* C2 as stated: the grid covers [open, close): its first slot starts at the
\* open instant and its last slot ends at the (adjusted) close instant, also
\* when open or close is not on a :00/:30 boundary.
C2_GridCoversOpenToClose ==
    bsBuilt =>
        /\ Len(bsSlots) > 0
        /\ bsSlots[1] = bsOpenInst
        /\ bsLastEnd = bsCloseAdj

\* C2 amended: a non-empty grid starts at the open instant rounded down to
\* :00/:30 (less than 30 minutes before open) and its last slot ends at the
\* last grid boundary that is not after the adjusted close (less than 30
\* minutes before it); the grid is empty exactly when less than 30 minutes lie
\* between the rounded-down open and the close; when open and close are both
\* on a :00/:30 boundary the grid starts at open and ends at close.
C2_GridCoversAlignedWindow ==
    bsBuilt =>
        /\ Len(bsSlots) > 0 =>
              /\ bsSlots[1] = bsOpenDown
              /\ bsOpenDown <= bsOpenInst /\ bsOpenInst - bsOpenDown < 30
              /\ bsLastEnd <= bsCloseAdj /\ bsCloseAdj - bsLastEnd < 30
        /\ Len(bsSlots) = 0 <=> bsCloseAdj - bsOpenDown < 30
        /\ (bsOpenInst % 30 = 0 /\ bsCloseInst % 30 = 0) =>
              /\ Len(bsSlots) > 0
              /\ bsSlots[1] = bsOpenInst
              /\ bsLastEnd = bsCloseAdj

\* C2 witness: a grid was built for 08:15-22:15; it starts before open and
\* ends before close.
C2_Witness ==
    /\ bsBuilt /\ bsOpen = T0815 /\ bsClose = T2215
    /\ Len(bsSlots) > 0
    /\ bsSlots[1] < bsOpenInst
    /\ bsLastEnd < bsCloseAdj

\* C3: whenever the parsed close instant is not strictly after the parsed
\* open instant, close is advanced by one calendar day: the grid is non-empty,
\* starts on the given date and its last slot ends on the next calendar date,
\* at the last grid boundary not after close + 1 day; for open 08:00 and close
\* 01:00 it has 34 slots, from 08:00 of the date to 01:00 of the next date.
C3_RolloverRunsPastMidnight ==
    (bsBuilt /\ ~(bsCloseInst > bsOpenInst)) =>
        /\ Len(bsSlots) > 0
        /\ bsSlots[1] = bsOpenDown
        /\ bsSlots[1] \div MinutesPerDay = bsDate
        /\ bsLastEnd >= (bsDate + 1) * MinutesPerDay
        /\ bsLastEnd <= bsCloseInst + MinutesPerDay
        /\ bsCloseInst + MinutesPerDay - bsLastEnd < 30
        /\ (bsOpen = T0800 /\ bsClose = T0100) =>
              /\ Len(bsSlots) = 34
              /\ bsSlots[1] = bsDate * MinutesPerDay + 8 * 60
              /\ bsLastEnd = (bsDate + 1) * MinutesPerDay + 60

\* C3 witness: the grid for open 08:00, close 01:00 was built and its last
\* slot ends after midnight.
C3_Witness ==
    /\ bsBuilt /\ bsOpen = T0800 /\ bsClose = T0100
    /\ bsLastEnd > (bsDate + 1) * MinutesPerDay

-----------------------------------------------------------------------------
(* Claims about /api/today, under Spec *)

Answered == hpc = "done" /\ res.status = "200"

\* the hours source has answered and getTodayHours has returned
HoursResolved == hoursResp.kind # "none"

Midnight(d) == d * MinutesPerDay

SlotSet == {allSlots[i] : i \in 1..Len(allSlots)}

GridStarts == {res.grid[j].start : j \in 1..Len(res.grid)}

\* the status after trimming and lower-casing is one of the four active ones
NormalizedActive(status) ==
    ToLowerCase(Trim(status)) \in
        { <<"c", "o", "n", "f", "i", "r", "m", "e", "d">>,
          <<"c", "h", "e", "c", "k", "e", "d", " ", "i", "n">>,
          <<"c", "h", "e", "c", "k", "e", "d", "-", "i", "n">>,
          <<"a", "c", "t", "i", "v", "e">> }

ActiveIdx == {i \in 1..Len(bookings.list) : NormalizedActive(bookings.list[i].status)}

\* the bookings whose start and end are both given as date-times
DatedIdx ==
    {i \in 1..Len(bookings.list) :
        bookings.list[i].from.kind = "at" /\ bookings.list[i].to.kind = "at"}

\* the start and the end the handler works with for booking i
StartOf(i) == BookingInstant(bookings.list[i].from, hnow)

EndOf(i) == BookingInstant(bookings.list[i].to, hnow)

KeyAt(u) == <<u \div 1440, u % 1440>>

\* the instant a date+time key stands for
InstantOf(key) == key[1] * 1440 + key[2]

\* C4: when the hours source returns for today an entry whose status
\* indicates open and whose hours list is absent or empty, getTodayHours
\* returns open = close = midnight, and the full grid is exactly 48 half-hour
\* slots from 00:00 of today to 00:00 of the next day.
C4_AlwaysOpenDayIsFullDay ==
    ( /\ HoursResolved
      /\ hoursResp.kind = "json" /\ hoursResp.day = "present"
      /\ hoursResp.status \in {HourOpen, HourOpenCap}
      /\ \/ hoursResp.hours.shape = "absent"
         \/ hoursResp.hours.shape = "list" /\ hoursResp.hours.list = <<>> )
    =>
        /\ hpc # "done" \/ res.error # "hours"
        /\ parseTime(todayISO, hwin.openStr) = [ok |-> TRUE, t |-> Midnight(todayISO)]
        /\ parseTime(todayISO, hwin.closeStr) = [ok |-> TRUE, t |-> Midnight(todayISO)]
        /\ Answered =>
              /\ Len(allSlots) = 48
              /\ \A i \in 1..48 : allSlots[i] = Midnight(todayISO) + 30 * (i - 1)
              /\ allSlots[48] + 30 = Midnight(todayISO + 1)

\* C4 witness: a request was answered with a grid on a day the hours source
\* gave as open without an hours list, and its full grid has 48 slots.
C4_Witness ==
    /\ Answered
    /\ hoursResp.kind = "json" /\ hoursResp.day = "present"
    /\ hoursResp.status = HourOpen /\ hoursResp.hours.shape = "absent"
    /\ Len(allSlots) = 48

\* C5: a booking whose status, trimmed and lower-cased, is not confirmed /
\* checked in / checked-in / active adds no key to the occupancy set, and an
\* active booking whose [start, end) spans exactly k slot widths adds exactly
\* k distinct date+time keys; a confirmed booking of two widths adds two.
C5_OnlyActiveBookingsOccupy ==
    Answered =>
        /\ taken = UNION { KeysOfBooking(bookings.list[i], hnow) : i \in ActiveIdx }
        /\ ActiveIdx = {} => taken = {}
        /\ \A i \in ActiveIdx \cap DatedIdx :
              LET s == bookings.list[i].from.t
                  e == bookings.list[i].to.t
                  k == (e - s) \div 30
                  keys == {KeyAt(s + 30 * n) : n \in 0..(k - 1)}
              IN  (e > s /\ (e - s) % 30 = 0) =>
                      /\ Cardinality(keys) = k
                      /\ keys \subseteq taken
                      /\ ActiveIdx = {i} => taken = keys
        /\ (ActiveIdx = {1} /\ bookings.list[1] = BookingPool(todayISO)[2]) =>
              Cardinality(taken) = 2

\* C5 witness: the bookings were a canceled one and a confirmed one of two
\* slot widths, and the occupancy set has exactly two keys.
C5_Witness ==
    /\ Answered
    /\ bookings.list = <<BookingPool(todayISO)[1], BookingPool(todayISO)[2]>>
    /\ bookings.list[1].status = StCanceled
    /\ bookings.list[2].status = StConfirmed
    /\ Cardinality(taken) = 2

\* C6: occupancy keys are scoped by calendar date: every key of the set is
\* the date and time of an instant inside the [start, end) range of an
\* active booking, and a slot is reported booked only if its own instant lies
\* in the range of an active booking, never because a booking covers the same
\* time of day on another date.
C6_KeysScopedByDate ==
    Answered =>
        LET ranges == { <<StartOf(i).t, EndOf(i).t>> :
                          i \in {k \in ActiveIdx : StartOf(k).ok /\ EndOf(k).ok} }
        IN  /\ \A key \in taken :
                  /\ key[2] \in 0..(MinutesPerDay - 1)
                  /\ \E r \in ranges : r[1] <= InstantOf(key) /\ InstantOf(key) < r[2]
            /\ \A j \in 1..Len(res.grid) :
                  res.grid[j].booked =>
                      \E r \in ranges :
                         r[1] <= res.grid[j].start /\ res.grid[j].start < r[2]

\* C6 witness: on a rollover day a confirmed booking for tomorrow 08:00-09:00
\* was fetched, and today's 08:00 slot is in the grid and not booked.
C6_Witness ==
    /\ Answered /\ spansNextDay
    /\ \E i \in ActiveIdx :
          /\ bookings.list[i].from = AtTime(At(todayISO + 1, 8, 0))
          /\ bookings.list[i].to = AtTime(At(todayISO + 1, 9, 0))
    /\ \E j \in 1..Len(res.grid) :
          /\ res.grid[j].start = At(todayISO, 8, 0)
          /\ ~res.grid[j].booked
    /\ KeyAt(At(todayISO + 1, 8, 0)) \in taken

\* C7: if the full grid of today is not empty then the grid of the response
\* is not empty; when no slot of the full grid ends after now, the response
\* holds the complete grid.
C7_GridNeverEmptied ==
    (Answered /\ Len(allSlots) > 0) =>
        /\ Len(res.grid) > 0
        /\ (\A t \in SlotSet : ~(t + 30 > hnow)) =>
              /\ Len(res.grid) = Len(allSlots)
              /\ \A i \in 1..Len(allSlots) : res.grid[i].start = allSlots[i]

\* C7 witness: the request came after the last slot had ended and was
\* answered with the complete grid.
C7_Witness ==
    /\ Answered /\ Len(allSlots) > 0
    /\ \A t \in SlotSet : t + 30 <= hnow
    /\ Len(res.grid) = Len(allSlots)

\* C8: when some slot of the full grid ends strictly after now, the response
\* holds exactly the slots whose end is strictly after now, in their order:
\* a slot with start <= now < end is in it, a slot with end <= now is not.
C8_GridKeepsSlotsNotYetEnded ==
    (Answered /\ \E t \in SlotSet : t + 30 > hnow) =>
        /\ GridStarts = {t \in SlotSet : t + 30 > hnow}
        /\ Len(res.grid) = Cardinality({t \in SlotSet : t + 30 > hnow})
        /\ \A j \in 1..(Len(res.grid) - 1) : res.grid[j].start < res.grid[j + 1].start
        /\ \A t \in SlotSet : (t <= hnow /\ hnow < t + 30) => t \in GridStarts
        /\ \A t \in SlotSet : t + 30 <= hnow => t \notin GridStarts

\* C8 witness: the request came while a slot was in progress; the grid starts
\* with that slot and leaves out a slot that had ended.
C8_Witness ==
    /\ Answered
    /\ res.grid[1].start < hnow /\ hnow < res.grid[1].start + 30
    /\ \E t \in SlotSet : t + 30 <= hnow /\ t \notin GridStarts

\* C10 as stated: getTodayHours never propagates a failure; for every outcome
\* of the hours request that is a network error, a status that is not ok,
\* unparseable JSON, a missing date entry, a status not indicating open, or
\* hours that are not a list, it returns the fallback window 08:00 / 23:00,
\* and the request goes on to the bookings.
C10_HoursFailureGivesFallback ==
    ( /\ HoursResolved
      /\ \/ hoursResp.kind \in {"network", "http", "badjson"}
         \/ hoursResp.day = "missing"
         \/ hoursResp.status \notin {HourOpen, HourOpenCap}
         \/ hoursResp.hours.shape = "notalist" )
    =>
        /\ hwin = [openStr |-> <<"0", "8", ":", "0", "0">>,
                   closeStr |-> <<"2", "3", ":", "0", "0">>]
        /\ \E i \in 1..Len(hsent) : hsent[i] = "bookingsToday"

-----------------------------------------------------------------------------
(* Claims about failures of the sources, under Spec *)

\* the hours source gave today as an open day with a list of sub-intervals
OpenWithIntervals ==
    /\ HoursResolved
    /\ hoursResp.kind = "json" /\ hoursResp.day = "present"
    /\ hoursResp.status \in {HourOpen, HourOpenCap}
    /\ hoursResp.hours.shape = "list" /\ hoursResp.hours.list # <<>>

\* a from or to of the interval is missing or is no time for parseTime
MalformedInterval(iv) ==
    \/ ~parseTime(0, iv.from).ok
    \/ ~parseTime(0, iv.to).ok

IntervalsOf == {hoursResp.hours.list[i] : i \in 1..Len(hoursResp.hours.list)}

\* C11 as stated: when the hours source returns an open day with a
\* sub-interval whose from or to is missing or cannot be parsed, the fallback
\* window is used, both boundaries handed to buildSlots are parseable, and
\* the request is not answered 500 for its opening hours.
C11_MalformedIntervalsGiveFallback ==
    (OpenWithIntervals /\ \E iv \in IntervalsOf : MalformedInterval(iv)) =>
        /\ hwin = [openStr |-> <<"0", "8", ":", "0", "0">>,
                   closeStr |-> <<"2", "3", ":", "0", "0">>]
        /\ parseTime(todayISO, hwin.openStr).ok
        /\ parseTime(todayISO, hwin.closeStr).ok
        /\ ~(hpc = "done" /\ res.status = "500"
                /\ res.error = "Could not parse opening hours")

\* the records the booking source can supply for today and for tomorrow
GenuineBookings ==
    {BookingPool(todayISO)[i] : i \in 1..Len(BookingPool(todayISO))}
    \cup {TomorrowPool(todayISO)[i] : i \in 1..Len(TomorrowPool(todayISO))}

\* C12 as stated: when a bookings fetch fails (a status that is not ok, a
\* network error, an unparseable or malformed payload, for today or for the
\* second date), the request is answered 500 with an error text; a grid is
\* answered only when every payload fetched was a list of bookings, so never
\* from partial occupancy.
C12_BookingsFailureGives500 ==
    /\ (hpc = "done" /\ ~Answered) =>
          res.status = "500" /\ res.error # "none" /\ res.grid = <<>>
    /\ Answered =>
          /\ bookings.shape = "list"
          /\ \A i \in 1..Len(bookings.list) : bookings.list[i] \in GenuineBookings

\* C13 as stated: an active booking whose start or end is missing or
\* unparseable is skipped: the occupancy set holds the keys of the active
\* bookings with both a start and an end and no other key, and a slot is
\* booked only by such a booking.
C13_BookingsWithoutBoundsSkipped ==
    Answered =>
        /\ taken = UNION { KeysOfBooking(bookings.list[i], hnow) :
                             i \in ActiveIdx \cap DatedIdx }
        /\ \A j \in 1..Len(res.grid) :
              res.grid[j].booked =>
                  \E i \in ActiveIdx \cap DatedIdx :
                     /\ bookings.list[i].from.t <= res.grid[j].start
                     /\ res.grid[j].start < bookings.list[i].to.t

\* the errors getAccessToken throws
TokenErrors == {"OAuth failed (status)", "fetch failed", "JSON parse error"}

\* C16: when getAccessToken throws, the request is answered 500 with an
\* error text; no default token is used, and no request to the hours source
\* or to the booking source is sent for that display request.
C16_CredentialFailureIsFatal ==
    /\ [][ (hpc = "token" /\ tpc[HandlerCaller] = "thrown") =>
              /\ bearer' = bearer /\ hsent' = hsent
              /\ hpc' # hpc =>
                    /\ hpc' = "done"
                    /\ res'.status = "500" /\ res'.grid = <<>>
                    /\ res'.error = tlastErr[HandlerCaller]
                    /\ res'.error \in TokenErrors ]_vars
    /\ [](hpc \in {"idle", "display", "token"} => (hsent = <<>> /\ bearer = "none"))
    /\ []((hpc = "done" /\ res.error \in TokenErrors) =>
              /\ res.status = "500"
              /\ bearer = "none"
              /\ hsent = <<>>
              /\ hoursResp = NoHours
              /\ bookings.list = <<>> /\ taken = {} /\ allSlots = <<>>)

\* C16 witness: both token endpoints failed and the request was answered 500
\* with the error of the last one, no other request having been sent.
C16_Witness ==
    /\ hpc = "done" /\ res.status = "500"
    /\ res.error = "fetch failed"
    /\ hsent = <<>> /\ bearer = "none"

\* the time of day parseTime reads in a from or to
TimeOfDay(str) == parseTime(0, str).t

\* C17 as stated: for an open day with sub-intervals whose from and to the
\* Time Parser accepts, in whatever shape and order, openStr is a from with
\* the earliest time of day and closeStr a to with the latest time of day
\* among all sub-intervals.
C17_EarliestFromLatestTo ==
    (OpenWithIntervals /\ \A iv \in IntervalsOf : ~MalformedInterval(iv)) =>
        /\ \E iv \in IntervalsOf : hwin.openStr = iv.from
        /\ \E iv \in IntervalsOf : hwin.closeStr = iv.to
        /\ \A iv \in IntervalsOf :
              /\ TimeOfDay(hwin.openStr) <= TimeOfDay(iv.from)
              /\ TimeOfDay(hwin.closeStr) >= TimeOfDay(iv.to)

\* the window the handler resolved is a rollover window: close is not
\* strictly after open
RolloverWindow ==
    LET o == parseTime(todayISO, hwin.openStr)
        c == parseTime(todayISO, hwin.closeStr)
    IN  o.ok /\ c.ok /\ c.t <= o.t

Sent(req) == \E i \in 1..Len(hsent) : hsent[i] = req

TomorrowRecords ==
    {TomorrowPool(todayISO)[i] : i \in 1..Len(TomorrowPool(todayISO))}

\* C18: within one request the bookings of date+1 are requested if and only
\* if the resolved window is a rollover window, which is exactly when the
\* full grid reaches midnight; the request for today comes first, the two
\* results are concatenated in that order, and on a day without rollover no
\* second booking request is sent.
C18_TomorrowFetchedIffRollover ==
    /\ [](/\ hsent \in { <<>>, <<"hours">>, <<"hours", "bookingsToday">>,
                         <<"hours", "bookingsToday", "bookingsTomorrow">> }
          /\ Sent("bookingsTomorrow") => RolloverWindow
          /\ hpc = "bookingsTomorrow" => Sent("bookingsTomorrow")
          /\ (Answered \/ hpc = "bookingsTomorrow") =>
                (Sent("bookingsTomorrow") <=> RolloverWindow)
          /\ (Answered /\ Len(allSlots) > 0) =>
                (Sent("bookingsTomorrow") <=>
                    allSlots[Len(allSlots)] + 30 >= Midnight(todayISO + 1)))
    /\ [][ (hpc = "bookingsToday" /\ hpc' # hpc /\ res'.status # "500") =>
              (hsent' # hsent <=> RolloverWindow) ]_vars
    /\ [][ (hpc = "bookingsTomorrow" /\ Answered') =>
              /\ Len(bookings'.list) >= Len(bookings.list)
              /\ SubSeq(bookings'.list, 1, Len(bookings.list)) = bookings.list
              /\ \A i \in (Len(bookings.list) + 1)..Len(bookings'.list) :
                    bookings'.list[i] \in TomorrowRecords \cup {NoBooking} ]_vars

\* C18 witness: on a rollover day a request was answered after the bookings
\* of today and then of tomorrow were fetched, and the occupancy was
\* computed from one booking of each, today's first.
C18_Witness ==
    /\ Answered /\ RolloverWindow
    /\ hsent = <<"hours", "bookingsToday", "bookingsTomorrow">>
    /\ Len(bookings.list) = 2
    /\ bookings.list[1] = BookingPool(todayISO)[2]
    /\ bookings.list[2] = TomorrowPool(todayISO)[2]
    /\ allSlots[Len(allSlots)] + 30 > Midnight(todayISO + 1)

-----------------------------------------------------------------------------
(* Claims about the grid and the clock, under Spec *)

\* C21 as stated: every slot of the returned grid whose start lies inside
\* the [start, end) interval of an active booking with a parseable start and
\* end is reported booked, also when the booking does not start on a :00 or
\* :30 boundary.
C21_SlotInsideBookingIsBooked ==
    Answered =>
        \A j \in 1..Len(res.grid) :
           (\E i \in ActiveIdx \cap DatedIdx :
               /\ bookings.list[i].from.t <= res.grid[j].start
               /\ res.grid[j].start < bookings.list[i].to.t)
           => res.grid[j].booked

\* C22 as stated: in every response dateDisplay renders the calendar date
\* that was used to resolve the hours, fetch the bookings and build the
\* grid, also when midnight passes while the request is handled.
C22_DateDisplayIsGridDate ==
    Answered =>
        /\ res.dateDisplay = todayISO
        /\ \A i \in 1..Len(allSlots) : allSlots[i] >= Midnight(res.dateDisplay)

\* C23 as stated: on a rollover schedule, a request that arrives after
\* midnight and before the time of day at which the window closes is
\* answered with a grid that holds the slot in progress, the one with
\* start <= now < end.
C23_SlotInProgressAfterMidnight ==
    ( /\ Answered /\ RolloverWindow
      /\ Midnight(todayISO) <= hnow
      /\ hnow < parseTime(todayISO, hwin.closeStr).t )
    =>
        \E j \in 1..Len(res.grid) :
           res.grid[j].start <= hnow /\ hnow < res.grid[j].start + 30

-----------------------------------------------------------------------------
(* Claims about getAccessToken, under SpecToken *)

\* the tokens a provider supplies
ProviderTokens == {"tokA", "tokB"}

Failures == {"network", "http", "badjson"}

\* C9: after a successful refresh, a call made strictly before the recorded
\* expiry returns the identical cached token, issues no request and leaves
\* the cache as it is; a call made at or after the recorded expiry starts
\* exactly one refresh: one pass over the endpoints that stops at the first
\* token, with at most one request per endpoint and at most one write of the
\* cache.
C9_CachedUntilExpiryThenOneRefresh ==
    /\ [][ \A p \in Callers :
             (tpc[p] = "idle" /\ tpc'[p] # "idle") =>
                /\ (tokenCache.token \in ProviderTokens /\ clock < tokenCache.expires) =>
                      /\ tpc'[p] = "returned"
                      /\ tret'[p] = tokenCache.token
                      /\ tsent'[p] = <<>>
                      /\ tokenCache' = tokenCache
                /\ (clock >= tokenCache.expires) =>
                      /\ tpc'[p] = "fetch"
                      /\ tsent'[p] = <<1>>
                      /\ twrites'[p] = 0 ]_vars
    /\ [](\A p \in Callers :
             /\ Len(tsent[p]) <= 2 /\ twrites[p] <= 1
             /\ tpc[p] = "fetch" =>
                   /\ twrites[p] = 0
                   /\ Len(tseen[p]) = Len(tsent[p]) - 1
                   /\ \A i \in 1..Len(tseen[p]) : tseen[p][i] \in Failures
             /\ (tpc[p] = "returned" /\ tsent[p] # <<>>) =>
                   /\ twrites[p] = 1
                   /\ Len(tseen[p]) = Len(tsent[p])
                   /\ tseen[p][Len(tseen[p])] = "json"
                   /\ \A i \in 1..(Len(tseen[p]) - 1) : tseen[p][i] \in Failures
             /\ tpc[p] = "thrown" =>
                   /\ twrites[p] = 0
                   /\ tsent[p] = <<1, 2>>
                   /\ \A i \in 1..2 : tseen[p][i] \in Failures)

\* C9 witness: after the clock has moved on, a call has returned the token in
\* the cache, which has not reached its expiry, without sending a request,
\* while another call made at or after an expiry has refreshed the cache.
C9_Witness ==
    /\ clock > 0
    /\ tokenCache.token \in ProviderTokens /\ clock < tokenCache.expires
    /\ \E p \in Callers :
          /\ tpc[p] = "returned" /\ tsent[p] = <<>>
          /\ tret[p] = tokenCache.token
    /\ \E q \in Callers : tpc[q] = "returned" /\ twrites[q] = 1

\* C14 as stated: getAccessToken only ever returns, and only ever stores in
\* the cache, a token supplied by the provider; an answer without
\* access_token is a failure and leaves no empty or undefined token in the
\* cache or in the caller's hands.
C14_OnlyProviderTokens ==
    /\ tokenCache.token \in ProviderTokens \cup {"null"}
    /\ tokenCache.token = "null" => tokenCache.expires = 0
    /\ \A p \in Callers : tpc[p] = "returned" => tret[p] \in ProviderTokens

\* the error a failed answer of kind k leaves behind
ErrorText(k) ==
    CASE k = "http" -> "OAuth failed (status)"
      [] k = "network" -> "fetch failed"
      [] k = "badjson" -> "JSON parse error"
      [] OTHER -> "none"

\* C15: on a refresh the endpoints are tried in their fixed order; the call
\* returns the token of the first endpoint that answers with a body, a later
\* endpoint is contacted only if every earlier one failed, and if all fail
\* the call throws the error of the last endpoint tried.
C15_EndpointsInOrderFirstSuccess ==
    /\ [][ \A p \in Callers :
             (tpc[p] = "fetch" /\ tpc'[p] = "returned") =>
                /\ tret'[p] = tokenCache'.token
                /\ tsent'[p] = tsent[p]
                /\ tseen'[p] = Append(tseen[p], "json") ]_vars
    /\ [](\A p \in Callers :
             /\ tsent[p] \in {<<>>, <<1>>, <<1, 2>>}
             /\ \A i \in 1..Len(tsent[p]) :
                   \A j \in 1..(i - 1) : tseen[p][j] \in Failures
             /\ (tpc[p] = "returned" /\ tsent[p] # <<>>) =>
                   /\ Len(tseen[p]) = Len(tsent[p])
                   /\ tseen[p][Len(tseen[p])] = "json"
             /\ tpc[p] = "fetch" => Len(tseen[p]) = Len(tsent[p]) - 1
             /\ tpc[p] = "thrown" =>
                   /\ tsent[p] = <<1, 2>>
                   /\ Len(tseen[p]) = 2
                   /\ \A i \in 1..2 : tseen[p][i] \in Failures
                   /\ tlastErr[p] = ErrorText(tseen[p][2])
                   /\ tret[p] = "none")

\* C15 witness: one call has returned a token from the second endpoint after
\* the first had failed, and another has thrown the error of the second
\* endpoint after two different failures.
C15_Witness ==
    \E p, q \in Callers :
       /\ tpc[p] = "returned" /\ tseen[p] = <<"http", "json">>
       /\ tsent[p] = <<1, 2>> /\ tret[p] \in ProviderTokens
       /\ tpc[q] = "thrown" /\ tseen[q] = <<"http", "badjson">>
       /\ tlastErr[q] = "JSON parse error"

\* the record of the cache before any refresh
EmptyRecord == [token |-> "null", expires |-> 0]

\* the record one answer r, received at clock c, makes
RecordOf(r, c) == [token |-> r.access_token, expires |-> c + Lifetime(r.expires_in)]

Bodies == {r \in TokenResponses : r.kind = "json"}

\* C19: under any interleaving of overlapping calls the cache is the empty
\* record or the whole {token, expires} pair of one answer; every change of
\* the cache is such a whole write by the call that returns with it, so the
\* last successful write is what the cache holds, and a failing answer never
\* changes the cache.
C19_CacheWrittenWholeLastWriteWins ==
    /\ [](\/ tokenCache = EmptyRecord
          \/ /\ tokenCache.token \in AccessTokens
             /\ \E e \in ExpiresIn : tokenCache.expires - Lifetime(e) \in 0..clock)
    /\ [][ /\ tokenCache' # tokenCache =>
                \E p \in Callers : tpc[p] = "fetch" /\ tpc'[p] = "returned"
           /\ \A p \in Callers :
                 /\ (tpc[p] = "fetch" /\ tpc'[p] = "returned") =>
                       /\ \E r \in Bodies :
                             /\ tokenCache' = RecordOf(r, clock)
                             /\ tret'[p] = r.access_token
                       /\ tokenCache'.token = tret'[p]
                       /\ twrites'[p] = twrites[p] + 1
                 /\ (tpc[p] = "fetch" /\ tpc'[p] # "returned"
                        /\ tseen'[p] # tseen[p]) =>
                       tokenCache' = tokenCache ]_vars

\* C19 witness: two calls overlapped: one is still waiting for its endpoint
\* although the cache holds an unexpired token, which the other call wrote
\* and returned meanwhile.
C19_Witness ==
    \E p, q \in Callers :
       /\ p # q
       /\ tpc[p] = "returned" /\ twrites[p] = 1
       /\ tret[p] \in ProviderTokens /\ tokenCache.token = tret[p]
       /\ clock < tokenCache.expires
       /\ tpc[q] = "fetch" /\ tseen[q] = <<"http">>

\* C20: a refresh in which every endpoint fails leaves the cache as it is
\* and returns nothing, and the token in the cache is returned without a
\* refresh only by a call made strictly before the recorded expiry, whatever
\* calls failed before.
C20_FailedRefreshKeepsCacheNoStaleToken ==
    /\ [][ \A p \in Callers :
              (tpc[p] = "fetch" /\ tpc'[p] = "thrown") =>
                  /\ tokenCache' = tokenCache
                  /\ twrites'[p] = 0
                  /\ tret'[p] = "none" ]_vars
    /\ [][ \A p \in Callers :
              (tpc[p] = "idle" /\ tpc'[p] = "returned") =>
                  /\ clock < tokenCache.expires
                  /\ tret'[p] = tokenCache.token
                  /\ tokenCache' = tokenCache ]_vars
    /\ [][ \A p \in Callers :
              (tpc[p] = "idle" /\ tpc'[p] # "idle" /\ clock >= tokenCache.expires) =>
                  tpc'[p] = "fetch" /\ tret'[p] = "none" ]_vars
    /\ [](\A p \in Callers :
             /\ tpc[p] = "thrown" => (twrites[p] = 0 /\ tret[p] = "none")
             /\ tpc[p] = "fetch" => (twrites[p] = 0 /\ tret[p] = "none"))

\* C20 witness: a call made at or after the expiry of the cached token has
\* thrown after both endpoints failed, and the cache still holds that token
\* with its past expiry.
C20_Witness ==
    /\ clock > 0
    /\ tokenCache.token \in ProviderTokens /\ clock >= tokenCache.expires
    /\ \E p \in Callers :
          /\ tpc[p] = "thrown" /\ tsent[p] = <<1, 2>>
          /\ \A q \in Callers \ {p} : tpc[q] = "idle"

=============================================================================
